---- MODULE Spec2Model ----
(***************************************************************************)
(* n8n-nodes-oauth2-token: the OAuth2Token node's execute().               *)
(*                                                                         *)
(* Two builds of execute() are in the repository:                          *)
(*   - the TypeScript source (src/unnamed/part_001, compiled one-to-one    *)
(*     into src/unnamed/part_002): specification Spec;                     *)
(*   - an older compiled build (src/unnamed/part_003) with no refresh      *)
(*     phase, which writes the token into the input items in place:        *)
(*     specification SpecDist.                                             *)
(* SpecExtract runs the source's token extraction alone over every         *)
(* credential shape, SpecProbe its refresh phase alone over every way the  *)
(* record can hold its token URLs.  SpecTwice and SpecDistTwice call       *)
(* execute() a second time on the same input; SpecPair interleaves two     *)
(* invocations of the source at their awaits.                              *)
(***************************************************************************)
EXTENDS Integers, Sequences, FiniteSets, TLC

(***************************************************************************)
(* Bounds of the model.                                                    *)
(***************************************************************************)
\* longest input batch
MaxItems == 2
\* how often the credential store's record is refreshed during one run
MaxRefresh == 1

(***************************************************************************)
(* JavaScript values held in an item's json, and the heap of objects.      *)
(* A value is a record [t, s, r]: t the kind, s a string payload, r a      *)
(* number or (kind "obj") the heap address of an object.  A heap object is *)
(* a function from property names to values; the heap is a sequence of     *)
(* objects, an address is an index into it, address 0 stands for an        *)
(* undefined reference.                                                    *)
(***************************************************************************)
Num(n) == [t |-> "num", s |-> "", r |-> n]
Str(x) == [t |-> "str", s |-> x, r |-> 0]
Undef == [t |-> "undef", s |-> "", r |-> 0]
Null == [t |-> "null", s |-> "", r |-> 0]
NaNv == [t |-> "nan", s |-> "", r |-> 0]
\* a Date object (epoch 0)
DateV == [t |-> "date", s |-> "", r |-> 0]
\* a BigInt: JSON.stringify throws a plain TypeError on it
BigV == [t |-> "bigint", s |-> "", r |-> 0]
\* a value whose toJSON throws an error that carries a `context` object
CtxV == [t |-> "throwctx", s |-> "", r |-> 0]
Ref(a) == [t |-> "obj", s |-> "", r |-> a]

EmptyObj == [k \in {} |-> Undef]

\* property enumeration order used by the copy (one fixed order of all names)
KeyOrder == <<"foo", "bar", "gone", "n", "when", "big", "sub", "file",
              "accessToken", "error">>

KeysOf(o) == SelectSeq(KeyOrder, LAMBDA k : k \in DOMAIN o)

\* Date.prototype.toJSON of the Date above
IsoEpoch == "1970-01-01T00:00:00.000Z"

(***************************************************************************)
(* JSON.parse(JSON.stringify(x)), computed as the two calls compute it:    *)
(* numbers, strings and null survive; NaN becomes null; a Date becomes its  *)
(* ISO string; a property whose value is undefined is left out; a nested   *)
(* object is copied into a new object; a BigInt or a throwing toJSON makes  *)
(* stringify throw; stringify(undefined) is undefined and parse(undefined) *)
(* throws a SyntaxError.                                                   *)
(***************************************************************************)
RECURSIVE JsonError(_, _)
JsonError(h, a) ==
  IF a = 0 THEN "plain"
  ELSE LET o == h[a]
           here(k) == IF o[k].t = "bigint" THEN "plain"
                      ELSE IF o[k].t = "throwctx" THEN "ctx"
                      ELSE IF o[k].t = "obj" THEN JsonError(h, o[k].r)
                      ELSE "none"
       IN IF \E k \in DOMAIN o : here(k) = "plain" THEN "plain"
          ELSE IF \E k \in DOMAIN o : here(k) = "ctx" THEN "ctx"
          ELSE "none"

JsonPrim(v) ==
  IF v.t = "nan" THEN Null
  ELSE IF v.t = "date" THEN Str(IsoEpoch)
  ELSE v

RECURSIVE JsonCloneKeys(_, _, _, _)
RECURSIVE JsonClone(_, _)
\* copy the properties ks of object src into object dst, nested objects into
\* new objects appended to the heap
JsonCloneKeys(h, src, dst, ks) ==
  IF ks = << >> THEN h
  ELSE LET k == Head(ks)
           v == h[src][k]
       IN IF v.t = "undef" THEN JsonCloneKeys(h, src, dst, Tail(ks))
          ELSE IF v.t = "obj"
            THEN LET child == Len(h) + 1
                     h1 == JsonClone(h, v.r)
                 IN JsonCloneKeys([h1 EXCEPT ![dst] = (k :> Ref(child)) @@ @],
                                  src, dst, Tail(ks))
            ELSE JsonCloneKeys([h EXCEPT ![dst] = (k :> JsonPrim(v)) @@ @],
                               src, dst, Tail(ks))

\* the heap with a JSON copy of object a added at address Len(h) + 1
JsonClone(h, a) ==
  JsonCloneKeys(Append(h, EmptyObj), a, Len(h) + 1, KeysOf(h[a]))

\* the tree of values reachable from address a (what a reader of the record
\* sees): used to compare a record's data before and after
RECURSIVE DeepVal(_, _)
DeepVal(h, a) ==
  IF a = 0 THEN EmptyObj
  ELSE [k \in DOMAIN h[a] |->
          IF h[a][k].t = "obj"
            THEN [t |-> "tree", kids |-> DeepVal(h, h[a][k].r)]
            ELSE h[a][k]]

(***************************************************************************)
(* Credential records as the store returns them.  A field holds a string   *)
(* or is absent (undefined); absent and "" are the falsy values.  A nested  *)
(* object is present or not.                                               *)
(***************************************************************************)
Absent == "<absent>"
Truthy(x) == x # Absent /\ x # ""

NoObj == [present |-> FALSE, access_token |-> Absent, accessToken |-> Absent]
Obj(at, aT) == [present |-> TRUE, access_token |-> at, accessToken |-> aT]
NoAuth == [present |-> FALSE, oauth_token_url |-> Absent]
Auth(u) == [present |-> TRUE, oauth_token_url |-> u]

\* no record (undefined)
NoCred == [none |-> TRUE]

AllCreds ==
  [accessToken : {Absent, "", "A"}, access_token : {Absent, "", "B"},
   token : {Absent, "C"},
   oauth : {NoObj, Obj(Absent, Absent), Obj("D", Absent)},
   data : {NoObj, Obj("E", Absent)},
   oauthTokenData : {NoObj, Obj(Absent, Absent), Obj("F", Absent), Obj("", "G"),
                     Obj(Absent, "G"), Obj("F", "G")},
   tokenUrl : {Absent},
   auth : {NoAuth}]


\* the credential shapes the whole-invocation specifications draw from: which
\* token fields are set, crossed with which token URLs are set
BaseCred ==
  [accessToken |-> Absent, access_token |-> Absent, token |-> Absent,
   oauth |-> NoObj, data |-> NoObj, oauthTokenData |-> NoObj,
   tokenUrl |-> Absent, auth |-> NoAuth]

TokenShapes ==
  { [BaseCred EXCEPT !.accessToken = "A"],
    [BaseCred EXCEPT !.access_token = "B", !.oauthTokenData = Obj(Absent, "G")],
    [BaseCred EXCEPT !.oauthTokenData = Obj("F", Absent)],
    [BaseCred EXCEPT !.oauth = Obj("D", Absent)],
    BaseCred }

MainCreds ==
  { [c EXCEPT !.tokenUrl = u[1], !.auth = u[2]] :
      c \in TokenShapes,
      u \in {<<Absent, NoAuth>>, <<Absent, Auth("V")>>, <<"U", Auth("V")>>} }

\* the record after the store refreshed the token: every token it holds is new
FreshStr(x) == IF Truthy(x) THEN x \o "'" ELSE x
FreshObj(o) ==
  [o EXCEPT !.access_token = FreshStr(@), !.accessToken = FreshStr(@)]
Fresh(c) ==
  [c EXCEPT !.accessToken = FreshStr(@), !.access_token = FreshStr(@),
            !.token = FreshStr(@), !.oauth = FreshObj(@), !.data = FreshObj(@),
            !.oauthTokenData = FreshObj(@)]

(***************************************************************************)
(* Token extraction.                                                       *)
(***************************************************************************)
\* a mutant of ExtractToken: access_token tried before accessToken
ExtractTokenSwapped(c) ==
  IF Truthy(c.access_token) THEN c.access_token
  ELSE IF Truthy(c.accessToken) THEN c.accessToken
  ELSE IF Truthy(c.token) THEN c.token
  ELSE IF c.oauthTokenData.present
    THEN IF Truthy(c.oauthTokenData.access_token)
           THEN c.oauthTokenData.access_token
           ELSE c.oauthTokenData.accessToken
    ELSE Absent

\* a mutant of ExtractToken: oauthTokenData.accessToken tried before
\* oauthTokenData.access_token
ExtractTokenCamelFirst(c) ==
  IF Truthy(c.accessToken) THEN c.accessToken
  ELSE IF Truthy(c.access_token) THEN c.access_token
  ELSE IF Truthy(c.token) THEN c.token
  ELSE IF c.oauthTokenData.present
    THEN IF Truthy(c.oauthTokenData.accessToken)
           THEN c.oauthTokenData.accessToken
           ELSE c.oauthTokenData.access_token
    ELSE Absent

\* the source's chain (part_001 lines 162-179); the local stays undefined
\* (Absent) when no branch is taken
ExtractToken(c) ==
  IF Truthy(c.accessToken) THEN c.accessToken
  ELSE IF Truthy(c.access_token) THEN c.access_token
  ELSE IF Truthy(c.token) THEN c.token
  ELSE IF c.oauthTokenData.present
    THEN IF Truthy(c.oauthTokenData.access_token)
           THEN c.oauthTokenData.access_token
           ELSE c.oauthTokenData.accessToken
    ELSE Absent

\* the older compiled build's chain (part_003 lines 66-87)
DistExtractToken(c) ==
  IF Truthy(c.accessToken) THEN c.accessToken
  ELSE IF Truthy(c.access_token) THEN c.access_token
  ELSE IF Truthy(c.token) THEN c.token
  ELSE IF c.oauth.present /\ Truthy(c.oauth.access_token) THEN c.oauth.access_token
  ELSE IF c.data.present /\ Truthy(c.data.access_token) THEN c.data.access_token
  ELSE IF c.oauthTokenData.present
    THEN IF Truthy(c.oauthTokenData.access_token)
           THEN c.oauthTokenData.access_token
           ELSE c.oauthTokenData.accessToken
    ELSE Absent

\* a mutant of TokenMissing: the check of line 192 left out
TokenMissingNever(token) == FALSE

\* !accessToken (part_001 line 192, part_003 line 94)
TokenMissing(token) == ~Truthy(token)

\* a mutant of DefaultDummyUrl: a last-resort target when the record has no
\* token URL
DefaultDummyUrlLastResort(c) ==
  IF Truthy(c.tokenUrl) THEN c.tokenUrl
  ELSE IF c.auth.present /\ Truthy(c.auth.oauth_token_url) THEN c.auth.oauth_token_url
  ELSE "W"

\* a mutant of DefaultDummyUrl: auth.oauth_token_url tried before tokenUrl
DefaultDummyUrlNestedFirst(c) ==
  IF c.auth.present /\ Truthy(c.auth.oauth_token_url) THEN c.auth.oauth_token_url
  ELSE IF Truthy(c.tokenUrl) THEN c.tokenUrl
  ELSE ""

\* the default probe target (part_001 line 92)
DefaultDummyUrl(c) ==
  IF Truthy(c.tokenUrl) THEN c.tokenUrl
  ELSE IF c.auth.present /\ Truthy(c.auth.oauth_token_url) THEN c.auth.oauth_token_url
  ELSE ""

\* a mutant of NeedsFetch: Step 2 never fetches
NeedsFetchNever(r, url) == FALSE

\* a mutant of NeedsFetch: Step 2 always fetches again
NeedsFetchAlways(r, url) == TRUE

\* the refetch condition of Step 2 (part_001 line 151)
NeedsFetch(r, url) == r = NoCred \/ (url # "" /\ r = NoCred)

(***************************************************************************)
(* Input batches.  An item is [json, binary, pairedItem, err]: the heap    *)
(* addresses of its json and binary objects (0: undefined), its            *)
(* pairedItem.item (-1: none), and whether it is an error record.          *)
(***************************************************************************)
\* "nested" items also carry a binary attachment; "nojson" items have no json
ItemKinds == {"plain", "nested", "lossy", "bigint", "ctx"}
DistItemKinds == ItemKinds \cup {"nojson"}
\* "attached" items carry a binary attachment whose entry is an object (the
\* second object of the item); "attachedbig" items a BigInt besides
BinaryKinds == {"plain", "attached", "attachedbig"}

\* the objects of one input item of kind k, put at addresses base+1..base+3:
\* its json, the object nested in it, and its binary map
KindObjects(k, base) ==
  << CASE k = "nested" -> [foo |-> Num(1), sub |-> Ref(base + 2)]
       [] k = "lossy" -> [foo |-> Num(1), gone |-> Undef, n |-> NaNv, when |-> DateV]
       [] k = "bigint" -> [foo |-> Num(1), big |-> BigV]
       [] k = "ctx" -> [foo |-> CtxV]
       [] k = "attachedbig" -> [foo |-> Num(1), big |-> BigV]
       [] OTHER -> [foo |-> Num(1)],
     [bar |-> Num(1)],
     IF k \in {"attached", "attachedbig"} THEN [file |-> Ref(base + 2)]
     ELSE [file |-> Str("bytes")] >>

KindItem(k, base) ==
  [json |-> IF k = "nojson" THEN 0 ELSE base + 1,
   binary |-> IF k \in {"nested", "attached", "attachedbig"} THEN base + 3 ELSE 0,
   pairedItem |-> -1,
   err |-> FALSE]

BatchHeap(kinds) ==
  [a \in 1..(3 * Len(kinds)) |->
     KindObjects(kinds[((a - 1) \div 3) + 1], 3 * ((a - 1) \div 3))[((a - 1) % 3) + 1]]

BatchItems(kinds) == [i \in 1..Len(kinds) |-> KindItem(kinds[i], 3 * (i - 1))]

Batches == UNION { [1..n -> ItemKinds] : n \in 0..MaxItems }
DistBatches == UNION { [1..n -> DistItemKinds] : n \in 0..MaxItems }

Snapshot(h, recs) == [i \in 1..Len(recs) |-> DeepVal(h, recs[i].json)]

\* error.message of the two errors an item can raise
ErrMessage(e) == IF e = "ctx" THEN "upstream failed" ELSE "cannot serialize"


(***************************************************************************)
(* State.                                                                  *)
(***************************************************************************)
VARIABLES
  store,                 \* the credential store's current record
  refreshes,             \* how often the store refreshed it
  heap,                  \* the objects
  items,                 \* this.getInputData(): the input array
  accessTokenFieldName,  \* node parameter
  dummyUrlParam,         \* node parameter dummyUrl
  continueOnFail,        \* this.continueOnFail()
  pc,                    \* where execute() is
  dummyUrl,              \* local
  initialCredentials,    \* local, NoCred until fetched
  refreshedCredentials,  \* local (oAuth2ApiCredentials in the older build)
  accessToken,           \* local, Absent (undefined) until extracted
  itemIndex,             \* local
  returnItems,           \* local
  result,                \* "none", "returned", or the error execute() threw
  errIndex,              \* itemIndex carried by a thrown item error, else -1
  output,                \* the batch handed to the caller
  items0,                \* the input array as it was at the call
  inSnap,                \* the data of each input record at the call
  outSnap,               \* the data of each output record at the return
  wrote,                 \* which side was written after the return
  nFetch,                \* getCredentials calls made
  nProbe,                \* requestOAuth2 calls made
  probedUrl,             \* url of the probe request, "" if none
  credSource,            \* the call site that set refreshedCredentials
  refreshFailed,         \* the initial fetch or the probe threw
  tokenCred,             \* the record the token was extracted from
  calls,                 \* 1 in the first call of execute(), 2 in a second
  prevIn,                \* the data of each input record at the first call
  prevOut,               \* the batch the first call returned, as read then
  inv                    \* the locals of each of two invocations in flight

envVars == <<store, refreshes>>
priorVars == <<calls, prevIn, prevOut>>
inputVars == <<accessTokenFieldName, dummyUrlParam, continueOnFail, items0, inSnap,
               priorVars, inv>>
credVars == <<dummyUrl, initialCredentials, refreshedCredentials, credSource,
              refreshFailed, nFetch, nProbe, probedUrl>>
loopVars == <<heap, items, itemIndex, returnItems>>
endVars == <<result, errIndex, output, outSnap, wrote>>
vars == <<envVars, inputVars, credVars, loopVars, endVars, pc, accessToken,
          tokenCred>>
\* the variables of the single invocation
soloVars == <<accessTokenFieldName, dummyUrlParam, continueOnFail, items0, inSnap,
              priorVars, credVars, loopVars, endVars, pc, accessToken, tokenCred>>

\* two invocations of execute() in flight at once
Invocations == {1, 2}

\* the locals of an invocation that has not been called yet
IdleInv ==
  [pc |-> "idle", field |-> "", url |-> "", n |-> 0, initial |-> NoCred,
   refreshed |-> NoCred, fetched |-> {}, out |-> << >>, result |-> "none",
   overlap |-> FALSE]

FieldNames == {"accessToken", "foo"}

InitWith(creds, batches, fieldNames, urls, flags, start, fetched) ==
  /\ store \in creds
  /\ refreshes = 0
  /\ \E kinds \in batches :
       /\ heap = BatchHeap(kinds)
       /\ items = BatchItems(kinds)
       /\ items0 = BatchItems(kinds)
       /\ inSnap = Snapshot(BatchHeap(kinds), BatchItems(kinds))
  /\ accessTokenFieldName \in fieldNames
  /\ dummyUrlParam \in urls
  /\ continueOnFail \in flags
  /\ pc = start
  /\ dummyUrl = ""
  /\ initialCredentials = NoCred
  /\ refreshedCredentials = IF fetched THEN store ELSE NoCred
  /\ accessToken = Absent
  /\ itemIndex = 0
  /\ returnItems = << >>
  /\ result = "none"
  /\ errIndex = -1
  /\ output = << >>
  /\ outSnap = << >>
  /\ wrote = "none"
  /\ nFetch = 0
  /\ nProbe = 0
  /\ probedUrl = ""
  /\ credSource = "none"
  /\ refreshFailed = FALSE
  /\ tokenCred = NoCred
  /\ calls = 1
  /\ prevIn = << >>
  /\ prevOut = << >>
  /\ inv = [p \in Invocations |-> IdleInv]

\* a call of the source's execute(): any batch, any parameters, any record
Init == InitWith(MainCreds, Batches, FieldNames, {"", "P"}, BOOLEAN, "start", FALSE)

(***************************************************************************)
(* The credential store: another party may refresh the record while the    *)
(* batch is being processed (before that, the probe's helper may).         *)
(***************************************************************************)
StoreRefresh ==
  /\ pc \in {"loop", "distLoop"}
  /\ refreshes < MaxRefresh
  /\ store' = Fresh(store)
  /\ refreshes' = refreshes + 1
  /\ UNCHANGED <<inputVars, credVars, loopVars, endVars, pc, accessToken, tokenCred>>

(***************************************************************************)
(* execute() of the TypeScript source, part_001 lines 73-251, cut at its   *)
(* awaits.                                                                 *)
(***************************************************************************)
\* a mutant of Start: with a dummyUrl configured the request is sent before
\* any credential fetch
StartProbesFirst ==
  /\ pc = "start"
  /\ dummyUrl' = dummyUrlParam
  /\ pc' = IF dummyUrlParam # "" THEN "probe" ELSE "initialFetch"
  /\ UNCHANGED <<envVars, inputVars, initialCredentials, refreshedCredentials,
                 credSource, refreshFailed, nFetch, nProbe, probedUrl, loopVars,
                 endVars, accessToken, tokenCred>>

\* lines 74-87: read the input and the parameters, call getCredentials
Start ==
  /\ pc = "start"
  /\ dummyUrl' = dummyUrlParam
  /\ pc' = "initialFetch"
  /\ UNCHANGED <<envVars, inputVars, initialCredentials, refreshedCredentials,
                 credSource, refreshFailed, nFetch, nProbe, probedUrl, loopVars,
                 endVars, accessToken, tokenCred>>

\* a mutant of AfterCatch: the catch block sends the request again
AfterCatchRetry(r) == IF r = NoCred THEN "probe" ELSE "step2"

\* where the catch block of Step 1 (lines 131-143) goes on
AfterCatch(r) == IF r = NoCred THEN "fallbackFetch" ELSE "step2"

\* a mutant of InitialFetch: the initial record kept as refreshedCredentials
\* on the probe path too
InitialFetchKeepsRecord ==
  /\ pc = "initialFetch"
  /\ nFetch' = nFetch + 1
  /\ \/ /\ initialCredentials' = store
        /\ dummyUrl' = IF dummyUrl # "" THEN dummyUrl ELSE DefaultDummyUrl(store)
        /\ refreshedCredentials' = store
        /\ credSource' = "initial"
        /\ pc' = IF dummyUrl' = "" THEN "step2" ELSE "probe"
        /\ UNCHANGED refreshFailed
     \/ /\ refreshFailed' = TRUE
        /\ pc' = AfterCatch(refreshedCredentials)
        /\ UNCHANGED <<dummyUrl, initialCredentials, refreshedCredentials, credSource>>
  /\ UNCHANGED <<envVars, inputVars, nProbe, probedUrl, loopVars, endVars,
                 accessToken, tokenCred>>

\* lines 87-105: the initial fetch returns; or throws into the catch block
InitialFetch ==
  /\ pc = "initialFetch"
  /\ nFetch' = nFetch + 1
  /\ \/ /\ initialCredentials' = store
        /\ dummyUrl' = IF dummyUrl # "" THEN dummyUrl ELSE DefaultDummyUrl(store)
        /\ IF dummyUrl' = ""
             THEN /\ refreshedCredentials' = store
                  /\ credSource' = "initial"
                  /\ pc' = "step2"
             ELSE /\ pc' = "probe"
                  /\ UNCHANGED <<refreshedCredentials, credSource>>
        /\ UNCHANGED refreshFailed
     \/ /\ refreshFailed' = TRUE
        /\ pc' = AfterCatch(refreshedCredentials)
        /\ UNCHANGED <<dummyUrl, initialCredentials, refreshedCredentials, credSource>>
  /\ UNCHANGED <<envVars, inputVars, nProbe, probedUrl, loopVars, endVars,
                 accessToken, tokenCred>>

\* a mutant of Probe: the request made outside the try block, so that its
\* error leaves execute()
ProbeUncaught ==
  /\ pc = "probe"
  /\ nProbe' = nProbe + 1
  /\ probedUrl' = dummyUrl
  /\ \/ /\ pc' = "step2"
        /\ UNCHANGED <<refreshFailed, result>>
     \/ /\ refreshFailed' = TRUE
        /\ result' = "ProbeFailure"
        /\ pc' = "done"
  /\ UNCHANGED <<envVars, inputVars, dummyUrl, initialCredentials, refreshedCredentials,
                 credSource, nFetch, loopVars, errIndex, output, outSnap, wrote,
                 accessToken, tokenCred>>

\* lines 108-129: the probe request through requestOAuth2 returns or throws;
\* the helper may have refreshed the stored token before the request
Probe ==
  /\ pc = "probe"
  /\ nProbe' = nProbe + 1
  /\ probedUrl' = dummyUrl
  /\ \/ UNCHANGED envVars
     \/ /\ refreshes < MaxRefresh
        /\ store' = Fresh(store)
        /\ refreshes' = refreshes + 1
  /\ \/ /\ pc' = "step2"
        /\ UNCHANGED refreshFailed
     \/ /\ refreshFailed' = TRUE
        /\ pc' = AfterCatch(refreshedCredentials)
  /\ UNCHANGED <<inputVars, dummyUrl, initialCredentials, refreshedCredentials,
                 credSource, nFetch, loopVars, endVars, accessToken, tokenCred>>

\* a mutant of FallbackFetch: a failed fallback fetch is made again
FallbackFetchRetried ==
  /\ pc = "fallbackFetch"
  /\ nFetch' = nFetch + 1
  /\ \/ /\ refreshedCredentials' = store
        /\ credSource' = "fallback"
        /\ pc' = "step2"
     \/ /\ pc' = "fallbackFetch"
        /\ UNCHANGED <<refreshedCredentials, credSource>>
  /\ UNCHANGED <<envVars, inputVars, dummyUrl, initialCredentials, refreshFailed,
                 nProbe, probedUrl, loopVars, endVars, accessToken, tokenCred>>

\* lines 135-142: the fallback fetch of the catch block
FallbackFetch ==
  /\ pc = "fallbackFetch"
  /\ nFetch' = nFetch + 1
  /\ \/ /\ refreshedCredentials' = store
        /\ credSource' = "fallback"
     \/ UNCHANGED <<refreshedCredentials, credSource>>
  /\ pc' = "step2"
  /\ UNCHANGED <<envVars, inputVars, dummyUrl, initialCredentials, refreshFailed,
                 nProbe, probedUrl, loopVars, endVars, accessToken, tokenCred>>

\* lines 148-157, a record is set: no fetch
Step2Reuse ==
  /\ pc = "step2"
  /\ ~NeedsFetch(refreshedCredentials, dummyUrl)
  /\ pc' = "extract"
  /\ UNCHANGED <<envVars, inputVars, credVars, loopVars, endVars, accessToken,
                 tokenCred>>

\* lines 148-157, no record is set: fetch, and fail the invocation if it throws
Step2Fetch ==
  /\ pc = "step2"
  /\ NeedsFetch(refreshedCredentials, dummyUrl)
  /\ nFetch' = nFetch + 1
  /\ \/ /\ refreshedCredentials' = store
        /\ credSource' = "step2"
        /\ pc' = "extract"
        /\ UNCHANGED result
     \/ /\ result' = "CredentialRetrievalFailure"
        /\ pc' = "done"
        /\ UNCHANGED <<refreshedCredentials, credSource>>
  /\ UNCHANGED <<envVars, inputVars, dummyUrl, initialCredentials, refreshFailed,
                 nProbe, probedUrl, loopVars, errIndex, output, outSnap, wrote,
                 accessToken, tokenCred>>

\* lines 162-195: extract the token, fail if there is no record or no token
ExtractWith(token) ==
  /\ pc = "extract"
  /\ IF refreshedCredentials = NoCred
       THEN /\ result' = "NoCredentials"
            /\ pc' = "done"
            /\ UNCHANGED <<accessToken, tokenCred>>
       ELSE /\ accessToken' = token
            /\ tokenCred' = refreshedCredentials
            /\ IF TokenMissing(token)
                 THEN result' = "TokenNotFound" /\ pc' = "done"
                 ELSE pc' = "loop" /\ UNCHANGED result
  /\ UNCHANGED <<envVars, inputVars, credVars, loopVars, errIndex, output,
                 outSnap, wrote>>

Extract ==
  ExtractWith(IF refreshedCredentials = NoCred THEN Absent
              ELSE ExtractToken(refreshedCredentials))


(***************************************************************************)
(* Step 4 of the source, lines 203-250.                                    *)
(***************************************************************************)
\* a mutant of PairedItem: every record tagged with index 0
PairedItemZero(i) == 0

\* pairedItem: { item: itemIndex } (lines 213 and 229)
PairedItem(i) == i

\* a mutant of EnrichItem: item.binary copied in depth like item.json
EnrichItemDeepBinary(h, item, i, field, token) ==
  LET j == Len(h) + 1
      h1 == JsonClone(h, item.json)
      b == IF item.binary # 0 THEN Len(h1) + 1 ELSE 0
      h2 == IF item.binary # 0 THEN JsonClone(h1, item.binary) ELSE h1
  IN [heap |-> [h2 EXCEPT ![j] = (field :> Str(token)) @@ @],
      rec |-> [json |-> j, binary |-> b, pairedItem |-> PairedItem(i), err |-> FALSE]]

\* lines 209-217: the new item: a JSON copy of item.json, a spread copy of
\* item.binary, the tag; then the token written into the copy
EnrichItem(h, item, i, field, token) ==
  LET j == Len(h) + 1
      h1 == JsonClone(h, item.json)
      b == IF item.binary # 0 THEN Len(h1) + 1 ELSE 0
      h2 == IF item.binary # 0 THEN Append(h1, h1[item.binary]) ELSE h1
  IN [heap |-> [h2 EXCEPT ![j] = (field :> Str(token)) @@ @],
      rec |-> [json |-> j, binary |-> b, pairedItem |-> PairedItem(i), err |-> FALSE]]

\* a mutant of ErrorItem: the error's own message dropped
ErrorItemUnknown(h, i, e, fallbackMessage) ==
  [heap |-> Append(h, [error |-> Str(fallbackMessage)]),
   rec |-> [json |-> Len(h) + 1, binary |-> 0, pairedItem |-> PairedItem(i),
            err |-> TRUE]]

\* lines 227-230: the error record put in place of an item that threw
ErrorItem(h, i, e, fallbackMessage) ==
  [heap |-> Append(h, [error |-> Str(IF ErrMessage(e) # "" THEN ErrMessage(e)
                                     ELSE fallbackMessage)]),
   rec |-> [json |-> Len(h) + 1, binary |-> 0, pairedItem |-> PairedItem(i),
            err |-> TRUE]]

\* a mutant of ThrownItemError: every item error wrapped in a new error
ThrownItemErrorWrapped(e) == "ItemErrorWrapped"

\* lines 233-240: the error thrown when continueOnFail() is off
ThrownItemError(e) == IF e = "ctx" THEN "ItemErrorRethrown" ELSE "ItemErrorWrapped"

\* a mutant of Item: the token read from the store's record anew for each
\* item
ItemRereadsStore ==
  /\ pc = "loop"
  /\ itemIndex < Len(items)
  /\ LET item == items[itemIndex + 1]
         e == JsonError(heap, item.json)
     IN IF e = "none"
          THEN LET n == EnrichItem(heap, item, itemIndex, accessTokenFieldName,
                                   ExtractToken(store))
               IN /\ heap' = n.heap
                  /\ returnItems' = Append(returnItems, n.rec)
                  /\ itemIndex' = itemIndex + 1
                  /\ UNCHANGED <<pc, result, errIndex>>
          ELSE IF continueOnFail
            THEN LET n == ErrorItem(heap, itemIndex, e, "Unknown error processing item")
                 IN /\ heap' = n.heap
                    /\ returnItems' = Append(returnItems, n.rec)
                    /\ itemIndex' = itemIndex + 1
                    /\ UNCHANGED <<pc, result, errIndex>>
            ELSE /\ result' = ThrownItemError(e)
                 /\ errIndex' = itemIndex
                 /\ pc' = "done"
                 /\ UNCHANGED <<heap, returnItems, itemIndex>>
  /\ UNCHANGED <<envVars, inputVars, credVars, items, output, outSnap, wrote,
                 accessToken, tokenCred>>

\* one iteration of the loop, lines 203-243
Item ==
  /\ pc = "loop"
  /\ itemIndex < Len(items)
  /\ LET item == items[itemIndex + 1]
         e == JsonError(heap, item.json)
     IN IF e = "none"
          THEN LET n == EnrichItem(heap, item, itemIndex, accessTokenFieldName,
                                   accessToken)
               IN /\ heap' = n.heap
                  /\ returnItems' = Append(returnItems, n.rec)
                  /\ itemIndex' = itemIndex + 1
                  /\ UNCHANGED <<pc, result, errIndex>>
          ELSE IF continueOnFail
            THEN LET n == ErrorItem(heap, itemIndex, e, "Unknown error processing item")
                 IN /\ heap' = n.heap
                    /\ returnItems' = Append(returnItems, n.rec)
                    /\ itemIndex' = itemIndex + 1
                    /\ UNCHANGED <<pc, result, errIndex>>
            ELSE /\ result' = ThrownItemError(e)
                 /\ errIndex' = itemIndex
                 /\ pc' = "done"
                 /\ UNCHANGED <<heap, returnItems, itemIndex>>
  /\ UNCHANGED <<envVars, inputVars, credVars, items, output, outSnap, wrote,
                 accessToken, tokenCred>>

\* lines 245-250: return [returnItems]
Return ==
  /\ pc = "loop"
  /\ itemIndex >= Len(items)
  /\ result' = "returned"
  /\ output' = returnItems
  /\ outSnap' = Snapshot(heap, returnItems)
  /\ pc' = "done"
  /\ UNCHANGED <<envVars, inputVars, credVars, loopVars, errIndex, wrote,
                 accessToken, tokenCred>>

(***************************************************************************)
(* After the return: the caller's later writes.  A downstream node writes  *)
(* into the data of an output record, or the owner of the input writes     *)
(* into the data of an input record (the record's own object or an object  *)
(* nested in it).                                                          *)
(***************************************************************************)
Reachable(h, a) ==
  IF a = 0 THEN {}
  ELSE {a} \cup {h[a][k].r : k \in {x \in DOMAIN h[a] : h[a][x].t = "obj"}}

WriteInto(h, a) == [h EXCEPT ![a] = ("foo" :> Str("written")) @@ @]

DownstreamWrite ==
  /\ pc = "done"
  /\ result = "returned"
  /\ wrote = "none"
  /\ \E j \in 1..Len(output) : \E a \in Reachable(heap, output[j].json) :
       heap' = WriteInto(heap, a)
  /\ wrote' = "out"
  /\ UNCHANGED <<envVars, inputVars, credVars, items, itemIndex, returnItems,
                 result, errIndex, output, outSnap, pc, accessToken, tokenCred>>

UpstreamWrite ==
  /\ pc = "done"
  /\ result = "returned"
  /\ wrote = "none"
  /\ \E j \in 1..Len(items0) : \E a \in Reachable(heap, items0[j].json) :
       heap' = WriteInto(heap, a)
  /\ wrote' = "in"
  /\ UNCHANGED <<envVars, inputVars, credVars, items, itemIndex, returnItems,
                 result, errIndex, output, outSnap, pc, accessToken, tokenCred>>

(***************************************************************************)
(* A second call.  The host calls execute() again on the same input array  *)
(* (the same objects, as the first call left them) with the same           *)
(* parameters; every local of execute() starts anew.                       *)
(***************************************************************************)
\* what a reader of the returned batch sees
OutRecords(h, recs) ==
  [i \in 1..Len(recs) |->
     [data |-> DeepVal(h, recs[i].json), binary |-> DeepVal(h, recs[i].binary),
      pairedItem |-> recs[i].pairedItem]]

CallAgain(start) ==
  /\ pc = "done"
  /\ result = "returned"
  /\ wrote = "none"
  /\ calls = 1
  /\ calls' = 2
  /\ prevIn' = inSnap
  /\ prevOut' = OutRecords(heap, output)
  /\ items0' = items
  /\ inSnap' = Snapshot(heap, items)
  /\ pc' = start
  /\ dummyUrl' = ""
  /\ initialCredentials' = NoCred
  /\ refreshedCredentials' = NoCred
  /\ credSource' = "none"
  /\ refreshFailed' = FALSE
  /\ nFetch' = 0
  /\ nProbe' = 0
  /\ probedUrl' = ""
  /\ accessToken' = Absent
  /\ tokenCred' = NoCred
  /\ itemIndex' = 0
  /\ returnItems' = << >>
  /\ result' = "none"
  /\ errIndex' = -1
  /\ output' = << >>
  /\ outSnap' = << >>
  /\ UNCHANGED <<envVars, accessTokenFieldName, dummyUrlParam, continueOnFail,
                 heap, items, wrote, inv>>

Next ==
  \/ Start
  \/ InitialFetch
  \/ Probe
  \/ FallbackFetch
  \/ Step2Reuse
  \/ Step2Fetch
  \/ Extract
  \/ Item
  \/ Return
  \/ StoreRefresh
  \/ DownstreamWrite
  \/ UpstreamWrite

Spec == Init /\ [][Next]_vars


\* two calls of the source's execute() in a row on the same input
TwiceNext ==
  \/ Start
  \/ InitialFetch
  \/ Probe
  \/ FallbackFetch
  \/ Step2Reuse
  \/ Step2Fetch
  \/ Extract
  \/ Item
  \/ Return
  \/ CallAgain("start")

SpecTwice == Init /\ [][TwiceNext]_vars

\* the source's execute() on batches of items with and without attachments
BinaryBatches == UNION { [1..n -> BinaryKinds] : n \in 0..MaxItems }

BinaryInit ==
  InitWith({[BaseCred EXCEPT !.accessToken = "A"]}, BinaryBatches, {"accessToken"},
           {"", "P"}, BOOLEAN, "start", FALSE)

SpecBinary == BinaryInit /\ [][Next]_vars

(***************************************************************************)
(* The token extraction of the source alone, over every credential shape:  *)
(* execute() from Step 3 on, with the record already fetched and an empty  *)
(* input batch.                                                            *)
(***************************************************************************)
ExtractInit ==
  InitWith(AllCreds, {<< >>}, {"accessToken"}, {""}, {FALSE}, "extract", TRUE)

ExtractNext == Extract \/ Return

SpecExtract == ExtractInit /\ [][ExtractNext]_vars

(***************************************************************************)
(* The refresh phase of the source alone, over every way the record can    *)
(* hold its token URLs (absent, empty, set; auth absent or present):       *)
(* execute() on an empty input batch.                                      *)
(***************************************************************************)
UrlCreds ==
  { [c EXCEPT !.tokenUrl = u, !.auth = a] :
      c \in {[BaseCred EXCEPT !.accessToken = "A"], BaseCred},
      u \in {Absent, "", "U"},
      a \in {NoAuth, Auth(Absent), Auth(""), Auth("V")} }

ProbeInit ==
  InitWith(UrlCreds, {<< >>}, {"accessToken"}, {"", "P"}, {FALSE}, "start", FALSE)

ProbeNext ==
  \/ Start
  \/ InitialFetch
  \/ Probe
  \/ FallbackFetch
  \/ Step2Reuse
  \/ Step2Fetch
  \/ Extract
  \/ Return

SpecProbe == ProbeInit /\ [][ProbeNext]_vars

(***************************************************************************)
(* execute() of the older compiled build, part_003 lines 58-141.  It has   *)
(* no refresh phase and no returnItems: it writes the token into each      *)
(* input item and returns the input array.                                 *)
(***************************************************************************)
DistInit ==
  InitWith(MainCreds, DistBatches, FieldNames, {""}, BOOLEAN, "distStart", FALSE)

\* lines 59-63: read the input and the parameter, call getCredentials
DistStart ==
  /\ pc = "distStart"
  /\ pc' = "distFetch"
  /\ UNCHANGED <<envVars, inputVars, credVars, loopVars, endVars, accessToken,
                 tokenCred>>

\* line 63: the fetch returns, or throws out of execute()
DistFetch ==
  /\ pc = "distFetch"
  /\ nFetch' = nFetch + 1
  /\ \/ /\ refreshedCredentials' = store
        /\ credSource' = "dist"
        /\ pc' = "distExtract"
        /\ UNCHANGED result
     \/ /\ result' = "FetchRejected"
        /\ pc' = "done"
        /\ UNCHANGED <<refreshedCredentials, credSource>>
  /\ UNCHANGED <<envVars, inputVars, dummyUrl, initialCredentials, refreshFailed,
                 nProbe, probedUrl, loopVars, errIndex, output, outSnap, wrote,
                 accessToken, tokenCred>>

\* lines 66-96: extract the token, fail if there is none
DistExtract ==
  /\ pc = "distExtract"
  /\ accessToken' = DistExtractToken(refreshedCredentials)
  /\ tokenCred' = refreshedCredentials
  /\ IF TokenMissing(accessToken')
       THEN result' = "TokenNotFound" /\ pc' = "done"
       ELSE pc' = "distLoop" /\ UNCHANGED result
  /\ UNCHANGED <<envVars, inputVars, credVars, loopVars, errIndex, output,
                 outSnap, wrote>>

\* one iteration of the loop, lines 104-136: the token is written into
\* item.json itself (a TypeError if item.json is undefined), then
\* JSON.stringify(item.json) is evaluated for the debug log and may throw;
\* an error item is pushed onto the input array
DistItem ==
  /\ pc = "distLoop"
  /\ itemIndex < Len(items)
  /\ LET item == items[itemIndex + 1]
         h1 == IF item.json = 0 THEN heap
               ELSE [heap EXCEPT ![item.json] =
                       (accessTokenFieldName :> Str(accessToken)) @@ @]
         e == JsonError(h1, item.json)
     IN IF e = "none"
          THEN /\ heap' = h1
               /\ itemIndex' = itemIndex + 1
               /\ UNCHANGED <<items, pc, result, errIndex>>
          ELSE IF continueOnFail
            THEN LET n == ErrorItem(h1, itemIndex, e, "Unknown error")
                 IN /\ heap' = n.heap
                    /\ items' = Append(items, n.rec)
                    /\ itemIndex' = itemIndex + 1
                    /\ UNCHANGED <<pc, result, errIndex>>
            ELSE /\ heap' = h1
                 /\ result' = ThrownItemError(e)
                 /\ errIndex' = itemIndex
                 /\ pc' = "done"
                 /\ UNCHANGED <<items, itemIndex>>
  /\ UNCHANGED <<envVars, inputVars, credVars, returnItems, output, outSnap,
                 wrote, accessToken, tokenCred>>

\* lines 137-140: return [items]
DistReturn ==
  /\ pc = "distLoop"
  /\ itemIndex >= Len(items)
  /\ result' = "returned"
  /\ output' = items
  /\ outSnap' = Snapshot(heap, items)
  /\ pc' = "done"
  /\ UNCHANGED <<envVars, inputVars, credVars, loopVars, errIndex, wrote,
                 accessToken, tokenCred>>

DistNext ==
  \/ DistStart
  \/ DistFetch
  \/ DistExtract
  \/ DistItem
  \/ DistReturn
  \/ StoreRefresh
  \/ DownstreamWrite
  \/ UpstreamWrite

SpecDist == DistInit /\ [][DistNext]_vars


\* two calls of the older build's execute() in a row on the same input
DistTwiceNext ==
  \/ DistStart
  \/ DistFetch
  \/ DistExtract
  \/ DistItem
  \/ DistReturn
  \/ CallAgain("distStart")

SpecDistTwice == DistInit /\ [][DistTwiceNext]_vars

(***************************************************************************)
(* Two invocations of the source's execute() on one node, interleaved at   *)
(* their awaits (part_001 lines 87, 119, 137, 152).  Each has its own      *)
(* input batch, parameters and locals; the credential store is the one     *)
(* thing they share.  Step 2 is entered as a step of its own, so the model *)
(* allows every interleaving the event loop allows (and a few more).       *)
(***************************************************************************)
\* the records the store may hold at the start: a top-level token without
\* and with token URLs, a nested token, no token
PairCreds ==
  { [BaseCred EXCEPT !.accessToken = "A"],
    [BaseCred EXCEPT !.accessToken = "A", !.tokenUrl = "U", !.auth = Auth("V")],
    [BaseCred EXCEPT !.oauthTokenData = Obj("F", Absent)],
    BaseCred }

PairInit ==
  InitWith(PairCreds, {<< >>}, {"accessToken"}, {""}, {FALSE}, "paired", FALSE)

\* a mutant of CredCell: refreshedCredentials kept in one place for all
\* invocations (a module-level variable)
CredCellShared(p) == 1

\* whose refreshedCredentials invocation p reads and writes: its own, the
\* variable being declared inside execute() (line 82)
CredCell(p) == p

\* the data of item i of invocation p's input batch
PairData(p, i) == [foo |-> Num(10 * p + i)]

\* another invocation is between its call and its end
OtherInFlight(p) == \E q \in Invocations \ {p} : inv[q].pc \notin {"idle", "done"}

\* invocation p's locals become rec, and the refreshedCredentials it uses
\* becomes r
PairSet(p, rec, r) ==
  LET a == [inv EXCEPT ![p] = [rec EXCEPT !.overlap = @ \/ OtherInFlight(p)]]
  IN [a EXCEPT ![CredCell(p)].refreshed = r]

\* Steps 3 and 4 (lines 162-250) on record r, no await in them: the batch
\* returned, or the error thrown
PairFinish(p, rec, r) ==
  IF r = NoCred THEN [rec EXCEPT !.pc = "done", !.result = "NoCredentials"]
  ELSE IF TokenMissing(ExtractToken(r))
    THEN [rec EXCEPT !.pc = "done", !.result = "TokenNotFound"]
    ELSE [rec EXCEPT !.pc = "done", !.result = "returned",
            !.out = [i \in 1..rec.n |->
                       [data |-> (rec.field :> Str(ExtractToken(r))) @@ PairData(p, i),
                        pairedItem |-> PairedItem(i - 1)]]]

\* lines 74-87: invocation p is called, reads its input and parameters and
\* calls getCredentials
PairCall(p) ==
  /\ pc = "paired"
  /\ inv[p].pc = "idle"
  /\ \E f \in FieldNames, u \in {"", "P"}, n \in 1..MaxItems :
       inv' = PairSet(p, [inv[p] EXCEPT !.pc = "initialFetch", !.field = f,
                                        !.url = u, !.n = n],
                      inv[CredCell(p)].refreshed)
  /\ UNCHANGED <<envVars, soloVars>>

\* lines 87-105 of invocation p
PairInitialFetch(p) ==
  /\ pc = "paired"
  /\ inv[p].pc = "initialFetch"
  /\ \/ LET u == IF inv[p].url # "" THEN inv[p].url ELSE DefaultDummyUrl(store)
            rec == [inv[p] EXCEPT !.initial = store, !.url = u,
                                  !.fetched = @ \cup {store}]
        IN IF u = ""
             THEN inv' = PairSet(p, [rec EXCEPT !.pc = "step2"], store)
             ELSE inv' = PairSet(p, [rec EXCEPT !.pc = "probe"],
                                 inv[CredCell(p)].refreshed)
     \/ inv' = PairSet(p, [inv[p] EXCEPT
                             !.pc = AfterCatch(inv[CredCell(p)].refreshed)],
                       inv[CredCell(p)].refreshed)
  /\ UNCHANGED <<envVars, soloVars>>

\* lines 108-143 of invocation p: the probe returns or throws
PairProbe(p) ==
  /\ pc = "paired"
  /\ inv[p].pc = "probe"
  /\ \/ UNCHANGED envVars
     \/ /\ refreshes < MaxRefresh
        /\ store' = Fresh(store)
        /\ refreshes' = refreshes + 1
  /\ \E next \in {"step2", AfterCatch(inv[CredCell(p)].refreshed)} :
       inv' = PairSet(p, [inv[p] EXCEPT !.pc = next], inv[CredCell(p)].refreshed)
  /\ UNCHANGED soloVars

\* lines 135-142 of invocation p
PairFallbackFetch(p) ==
  /\ pc = "paired"
  /\ inv[p].pc = "fallbackFetch"
  /\ \/ inv' = PairSet(p, [inv[p] EXCEPT !.pc = "step2", !.fetched = @ \cup {store}],
                       store)
     \/ inv' = PairSet(p, [inv[p] EXCEPT !.pc = "step2"], inv[CredCell(p)].refreshed)
  /\ UNCHANGED <<envVars, soloVars>>

\* lines 148-250 of invocation p: Step 2, and Steps 3 and 4 on its record
PairStep2(p) ==
  /\ pc = "paired"
  /\ inv[p].pc = "step2"
  /\ IF NeedsFetch(inv[CredCell(p)].refreshed, inv[p].url)
       THEN \/ inv' = PairSet(p, PairFinish(p, [inv[p] EXCEPT !.fetched = @ \cup {store}],
                                            store),
                              store)
            \/ inv' = PairSet(p, [inv[p] EXCEPT !.pc = "done",
                                    !.result = "CredentialRetrievalFailure"],
                              inv[CredCell(p)].refreshed)
       ELSE inv' = PairSet(p, PairFinish(p, inv[p], inv[CredCell(p)].refreshed),
                           inv[CredCell(p)].refreshed)
  /\ UNCHANGED <<envVars, soloVars>>

\* another party refreshes the stored record while the two are in flight
PairStoreRefresh ==
  /\ pc = "paired"
  /\ refreshes < MaxRefresh
  /\ store' = Fresh(store)
  /\ refreshes' = refreshes + 1
  /\ UNCHANGED <<soloVars, inv>>

PairNext ==
  \/ \E p \in Invocations : PairCall(p)
  \/ \E p \in Invocations : PairInitialFetch(p)
  \/ \E p \in Invocations : PairProbe(p)
  \/ \E p \in Invocations : PairFallbackFetch(p)
  \/ \E p \in Invocations : PairStep2(p)
  \/ PairStoreRefresh

SpecPair == PairInit /\ [][PairNext]_vars

(***************************************************************************)
(* Properties.                                                             *)
(***************************************************************************)
Returned == pc = "done" /\ result = "returned"

\* C1: whenever execute returns normally, the output batch has exactly as
\* many records as the input batch had at the call.  It holds of the source
\* (Spec) and fails for the older compiled build (SpecDist), whose error
\* items are pushed onto the input array and processed in turn.
C1_CountPreserved == Returned => Len(output) = Len(items0)

\* C2: in every returned batch the record at position i (counted from 0)
\* carries pairedItem.item = i, enriched record or error record.
C2_IndexAligned ==
  Returned => \A i \in 1..Len(output) : output[i].pairedItem = i - 1

\* a returned batch whose first item failed under continue-on-failure and
\* whose second item was enriched
C2_Witness ==
  /\ Returned
  /\ continueOnFail
  /\ Len(output) = 2
  /\ output[1].err
  /\ ~output[2].err
  /\ output[2].pairedItem = 1

\* C3: execute never mutates its input: once the invocation is over
\* (returned or thrown) the input array and every input record's data are
\* what they were at the call; a later write to an output record's data
\* leaves every input record's data as it was, and a later write to an input
\* record's data leaves every output record's data as it was.  It holds of
\* the source (Spec) and fails for the older compiled build (SpecDist).
C3_InputNotMutated ==
  /\ (pc = "done" /\ wrote # "in") =>
       (items = items0 /\ Snapshot(heap, items0) = inSnap)
  /\ (pc = "done" /\ wrote = "in") => Snapshot(heap, output) = outSnap

\* C4: every enriched output record's data is its input record's data with
\* the single key accessTokenFieldName set to the token, nothing else added,
\* removed or changed.
C4_DataPlusToken ==
  Returned =>
    \A i \in 1..Len(output) :
      ~output[i].err =>
        outSnap[i] =
          (accessTokenFieldName :> Str(accessToken)) @@ inSnap[i]

\* what does hold of the source: the same for records whose data the JSON
\* copy keeps (no undefined, NaN or Date value)
JsonSafe(d) ==
  \A k \in DOMAIN d : d[k].t \in {"num", "str", "null"} \/
    (d[k].t = "tree" /\ \A x \in DOMAIN d[k].kids : d[k].kids[x].t \in {"num", "str", "null"})

C4_DataPlusTokenJsonSafe ==
  Returned =>
    \A i \in 1..Len(output) :
      (~output[i].err /\ JsonSafe(inSnap[i])) =>
        outSnap[i] = (accessTokenFieldName :> Str(accessToken)) @@ inSnap[i]


\* the record the token was extracted from, once extraction has run
Extracted == tokenCred # NoCred

NoTopLevelToken(c) ==
  ~Truthy(c.accessToken) /\ ~Truthy(c.access_token) /\ ~Truthy(c.token)

\* C5 as stated: a record containing a top-level accessToken (whatever its
\* value) yields exactly that value, and a record with both accessToken and
\* access_token yields the accessToken value.
C5_TopLevelWins_Original ==
  Extracted => (tokenCred.accessToken # Absent => accessToken = tokenCred.accessToken)

\* C5, amended: top-level fields win over every nested shape and are tried
\* in the order accessToken, access_token, token, each taken when it is
\* non-empty: a non-empty top-level accessToken is returned whatever else the
\* record holds, else a non-empty access_token, else a non-empty token.
C5_TopLevelWins ==
  Extracted =>
    /\ Truthy(tokenCred.accessToken) => accessToken = tokenCred.accessToken
    /\ (~Truthy(tokenCred.accessToken) /\ Truthy(tokenCred.access_token)) =>
         accessToken = tokenCred.access_token
    /\ (~Truthy(tokenCred.accessToken) /\ ~Truthy(tokenCred.access_token)
          /\ Truthy(tokenCred.token)) => accessToken = tokenCred.token

\* a record holding a token at every place yields its accessToken
C5_Witness ==
  /\ Returned
  /\ tokenCred.accessToken = "A"
  /\ tokenCred.access_token = "B"
  /\ tokenCred.token = "C"
  /\ tokenCred.oauth.access_token = "D"
  /\ tokenCred.oauthTokenData = Obj("F", "G")
  /\ accessToken = "A"

\* C6: with no non-empty top-level token, extraction returns
\* oauth.access_token when it is non-empty, otherwise data.access_token when
\* it is non-empty, both before oauthTokenData.
C6_NestedShapes ==
  (Extracted /\ NoTopLevelToken(tokenCred)) =>
    /\ (tokenCred.oauth.present /\ Truthy(tokenCred.oauth.access_token)) =>
         accessToken = tokenCred.oauth.access_token
    /\ (~(tokenCred.oauth.present /\ Truthy(tokenCred.oauth.access_token))
          /\ tokenCred.data.present /\ Truthy(tokenCred.data.access_token)) =>
         accessToken = tokenCred.data.access_token

\* a record whose only token is under oauthTokenData
OnlyOauthTokenData(c) ==
  /\ NoTopLevelToken(c)
  /\ ~Truthy(c.oauth.access_token)
  /\ ~Truthy(c.data.access_token)
  /\ c.oauthTokenData.present
  /\ Truthy(c.oauthTokenData.access_token) \/ Truthy(c.oauthTokenData.accessToken)

\* C7: a record whose only token is nested under oauthTokenData yields that
\* token, oauthTokenData.access_token when it is non-empty and otherwise
\* oauthTokenData.accessToken, and the invocation does not fail for want of
\* a token.
C7_OauthTokenData ==
  (Extracted /\ OnlyOauthTokenData(tokenCred)) =>
    /\ accessToken = IF Truthy(tokenCred.oauthTokenData.access_token)
                       THEN tokenCred.oauthTokenData.access_token
                       ELSE tokenCred.oauthTokenData.accessToken
    /\ result # "TokenNotFound"

\* both names are set under oauthTokenData and access_token is the one taken
C7_Witness ==
  /\ Returned
  /\ OnlyOauthTokenData(tokenCred)
  /\ tokenCred.oauthTokenData = Obj("F", "G")
  /\ accessToken = "F"

\* none of the six recognised places holds a non-empty value
NoneRecognised(c) ==
  /\ NoTopLevelToken(c)
  /\ ~Truthy(c.oauth.access_token)
  /\ ~Truthy(c.data.access_token)
  /\ ~Truthy(c.oauthTokenData.access_token)
  /\ ~Truthy(c.oauthTokenData.accessToken)

\* C8: if the record used for extraction matches none of the recognised
\* shapes, the invocation fails with the token-not-found error, hands no
\* record to the caller and has built no output record (no object was
\* added to the heap); and the token is non-empty in every state in which
\* the batch loop has begun.
C8_NoTokenIsFatal ==
  /\ (Extracted /\ NoneRecognised(tokenCred)) =>
       /\ pc = "done"
       /\ result = "TokenNotFound"
       /\ output = << >>
       /\ returnItems = << >>
       /\ Len(heap) = 3 * Len(items0)
  /\ pc = "loop" => Truthy(accessToken)

\* a batch of two items refused for want of a token
C8_Witness ==
  /\ pc = "done"
  /\ result = "TokenNotFound"
  /\ NoneRecognised(tokenCred)
  /\ Len(items0) = 2
  /\ itemIndex = 0


\* the source's extraction finds a token in record c
HoldsToken(c) ==
  ~NoTopLevelToken(c)
    \/ (c.oauthTokenData.present
          /\ (Truthy(c.oauthTokenData.access_token) \/ Truthy(c.oauthTokenData.accessToken)))

ItemErrors == {"ItemErrorWrapped", "ItemErrorRethrown"}

\* C9: a failure inside the refresh phase (the initial fetch or the probe
\* request throwing) is never surfaced by itself.  After such a failure the
\* invocation ends in a return or in one of the later phases' own errors,
\* the credential error only when no later fetch brought a record; and when
\* a later fetch succeeded and its record holds a token, the batch is
\* processed: the invocation returns the enriched batch, one record per
\* input item and the token in every enriched record, unless an item that
\* cannot be copied aborts it with continue-on-failure off.
C9_RefreshFailureAbsorbed ==
  (pc = "done" /\ refreshFailed) =>
    /\ result \in {"returned", "CredentialRetrievalFailure", "TokenNotFound"}
                    \cup ItemErrors
    /\ result = "CredentialRetrievalFailure" => refreshedCredentials = NoCred
    /\ (refreshedCredentials # NoCred /\ HoldsToken(refreshedCredentials)) =>
         /\ result \in {"returned"} \cup ItemErrors
         /\ Truthy(accessToken)
         /\ result = "returned" =>
              /\ Len(output) = Len(items0)
              /\ \A i \in 1..Len(output) :
                   ~output[i].err =>
                     outSnap[i][accessTokenFieldName] = Str(accessToken)
         /\ result \in ItemErrors =>
              /\ ~continueOnFail
              /\ JsonError(heap, items0[errIndex + 1].json) # "none"

\* the probe threw, the fallback fetch brought a record with a token, and the
\* batch of two came back enriched
C9_Witness ==
  /\ Returned
  /\ refreshFailed
  /\ nProbe = 1
  /\ credSource = "fallback"
  /\ Len(output) = 2
  /\ ~output[1].err
  /\ ~output[2].err

\* C10: if every credential fetch of an invocation fails, the invocation
\* fails with the credential-retrieval error and hands no record to the
\* caller; and Step 2 fetches exactly when the refresh phase left no record,
\* a record it left being kept as it is.
C10_FetchOnlyWhenMissing ==
  /\ [](( pc = "done" /\ initialCredentials = NoCred /\ refreshedCredentials = NoCred) =>
          (result = "CredentialRetrievalFailure" /\ output = << >> /\ returnItems = << >>))
  /\ [][pc = "step2" =>
          /\ (nFetch' # nFetch) <=> (refreshedCredentials = NoCred)
          /\ refreshedCredentials # NoCred => refreshedCredentials' = refreshedCredentials]_vars

\* the initial fetch, the fallback fetch and the fetch of Step 2 all failed
C10_Witness ==
  /\ pc = "done"
  /\ result = "CredentialRetrievalFailure"
  /\ nFetch = 3
  /\ initialCredentials = NoCred
  /\ refreshedCredentials = NoCred
  /\ Len(items0) = 2

\* the error JSON.stringify raises on data d (a tree of values)
RECURSIVE DataError(_)
DataError(d) ==
  LET here(k) == IF d[k].t = "bigint" THEN "plain"
                 ELSE IF d[k].t = "throwctx" THEN "ctx"
                 ELSE IF d[k].t = "tree" THEN DataError(d[k].kids)
                 ELSE "none"
  IN IF \E k \in DOMAIN d : here(k) = "plain" THEN "plain"
     ELSE IF \E k \in DOMAIN d : here(k) = "ctx" THEN "ctx"
     ELSE "none"

\* the error that processing input item i raises, on the data the item had
\* at the call ("none": it is enriched)
ItemFailure(i) == DataError(inSnap[i])

\* the batch reached the item loop: a token was extracted
LoopReached == Truthy(accessToken)

\* C11: with continue-on-failure on, the returned batch holds, at the
\* position of every item whose processing threw, an error record with the
\* error's message and the item's index, and at every other position a
\* record enriched with the token and tagged with its index; no item is
\* skipped, whatever its neighbours did.
C11_ErrorRecordInPlace ==
  (Returned /\ continueOnFail) =>
    /\ Len(output) = Len(items0)
    /\ \A i \in 1..Len(items0) :
         /\ output[i].pairedItem = i - 1
         /\ IF ItemFailure(i) # "none"
              THEN /\ output[i].err
                   /\ outSnap[i] = [error |-> Str(ErrMessage(ItemFailure(i)))]
              ELSE /\ ~output[i].err
                   /\ accessTokenFieldName \in DOMAIN outSnap[i]
                   /\ outSnap[i][accessTokenFieldName] = Str(accessToken)

\* a returned batch of two items: the first threw and became an error
\* record, the second was enriched after it
C11_Witness ==
  /\ Returned
  /\ continueOnFail
  /\ wrote = "none"
  /\ Len(items0) = 2
  /\ ItemFailure(1) = "plain"
  /\ ItemFailure(2) = "none"
  /\ outSnap[1] = [error |-> Str("cannot serialize")]
  /\ outSnap[2][accessTokenFieldName] = Str(accessToken)

\* the positions of the input items whose processing throws
FailingItems == {i \in 1..Len(items0) : ItemFailure(i) # "none"}
FirstFailing == CHOOSE i \in FailingItems : \A j \in FailingItems : i <= j

\* C12: with continue-on-failure off, an invocation that reached the item
\* loop with a failing item in its batch ends by throwing at the first such
\* item: the loop never goes past it, nothing is returned (the records built
\* before it are dropped), the error carries that item's index, and it is
\* the item's own error rethrown when that error has a context, a new
\* wrapping error otherwise.  No item error is thrown in any other case.
C12_AbortOnFirstFailure ==
  /\ (~continueOnFail /\ FailingItems # {}) =>
       /\ itemIndex <= FirstFailing - 1
       /\ (pc = "done" /\ LoopReached) =>
            /\ result = (IF ItemFailure(FirstFailing) = "ctx"
                           THEN "ItemErrorRethrown" ELSE "ItemErrorWrapped")
            /\ errIndex = FirstFailing - 1
            /\ itemIndex = FirstFailing - 1
            /\ Len(returnItems) = FirstFailing - 1
            /\ output = << >>
  /\ result \in {"ItemErrorRethrown", "ItemErrorWrapped"} =>
       (~continueOnFail /\ FailingItems # {})

\* the second item's error, one with a context, was rethrown with index 1
\* after the first item's record had been built
C12_Witness ==
  /\ pc = "done"
  /\ ~continueOnFail
  /\ result = "ItemErrorRethrown"
  /\ errIndex = 1
  /\ Len(returnItems) = 1
  /\ output = << >>

\* C13: an invocation issues at most one probe request through requestOAuth2
\* on every path, the failing ones included: the count of probe requests is
\* never above one, and once a probe has been issued no later step issues
\* another.
C13_AtMostOneProbe ==
  /\ [](nProbe \in {0, 1})
  /\ [][nProbe = 1 => nProbe' = 1]_vars

\* an invocation that failed for good after its one probe request threw
C13_Witness ==
  /\ pc = "done"
  /\ result = "CredentialRetrievalFailure"
  /\ nProbe = 1
  /\ refreshFailed

\* C14 as stated: an invocation that is over has called getCredentials once
\* or twice.
C14_OneOrTwoFetches_Original == pc = "done" => nFetch \in {1, 2}

\* C14: getCredentials is called at most three times in an invocation (the
\* initial fetch, the fallback fetch of the catch block, the Step 2 fetch),
\* and at least once in an invocation that is over; a third call is made
\* only after the initial fetch or the probe threw and the fallback fetch
\* brought no record.
C14_OneToThreeFetches ==
  /\ nFetch \in 0..3
  /\ pc = "done" => nFetch >= 1
  /\ nFetch = 3 => (refreshFailed /\ credSource \in {"none", "step2"})

\* three calls in an invocation that returned: the initial fetch succeeded,
\* the probe threw, the fallback fetch threw, the Step 2 fetch succeeded
C14_Witness ==
  /\ Returned
  /\ nFetch = 3
  /\ nProbe = 1
  /\ initialCredentials # NoCred
  /\ credSource = "step2"

\* C15: when execute is called a second time on the same input batch with
\* the same parameters and the credential store holds the same record
\* throughout, the second call's returned batch is structurally equal to the
\* first call's, and the input batch the second call sees (its records and
\* their data) is the one the first call saw.  It holds of the source
\* (SpecTwice) and fails for the older compiled build (SpecDistTwice), whose
\* first call leaves the token, and its error items, in the input.
C15_SecondCallEqual ==
  (calls = 2 /\ Returned /\ refreshes = 0) =>
    /\ inSnap = prevIn
    /\ OutRecords(heap, output) = prevOut

\* a second call returned a batch with an error record and an enriched one
C15_Witness ==
  /\ calls = 2
  /\ Returned
  /\ refreshes = 0
  /\ nProbe = 1
  /\ Len(output) = 2
  /\ output[1].err
  /\ ~output[2].err

\* C16: of two interleaved invocations, each one's returned batch is its own
\* input batch, record by record, with its own field name set to a token
\* extracted from a record that this invocation itself fetched.
C16_NoSharedState ==
  \A p \in Invocations :
    inv[p].result = "returned" =>
      /\ Len(inv[p].out) = inv[p].n
      /\ \E c \in inv[p].fetched :
           \A i \in 1..inv[p].n :
             /\ inv[p].out[i].data =
                  (inv[p].field :> Str(ExtractToken(c))) @@ PairData(p, i)
             /\ inv[p].out[i].pairedItem = i - 1

\* both invocations ran while the other was in flight and returned, with
\* different field names and different tokens (the store refreshed the
\* record between their fetches)
C16_Witness ==
  /\ \A p \in Invocations : inv[p].result = "returned" /\ inv[p].overlap
  /\ inv[1].field # inv[2].field
  /\ inv[1].out[1].data[inv[1].field] # inv[2].out[1].data[inv[2].field]

\* C17: once the probe phase is over the record is fetched again on every
\* path: whenever execute() is at or past the extraction with a record, a
\* fetch later than the initial one took place, and the record used is the
\* initial one only when that later fetch failed.  (The fallback fetch of
\* the catch block is counted as such a later fetch.)
C17_AlwaysRefetched ==
  (pc \in {"extract", "loop"} \/ tokenCred # NoCred) =>
    /\ nFetch >= 2
    /\ credSource = "initial" => refreshFailed

\* C18: in an invocation that issued a probe request, returned or thrown,
\* the record the token is extracted from comes from a getCredentials call
\* made after the probe completed (the fallback fetch of the catch block or
\* the Step 2 fetch, never the initial fetch), and at the extraction it is
\* the record the store holds after the probe, refreshed or not.
C18_FetchedAfterProbe ==
  /\ (nProbe = 1 /\ (pc \in {"extract", "loop"} \/ tokenCred # NoCred)) =>
       /\ credSource \in {"fallback", "step2"}
       /\ nFetch >= 2
  /\ (nProbe = 1 /\ pc = "extract" /\ refreshedCredentials # NoCred) =>
       refreshedCredentials = store
  /\ (nProbe = 1 /\ tokenCred # NoCred) => tokenCred = refreshedCredentials

\* the probe threw after the helper had refreshed the stored token, and the
\* batch returned carries the new token, from the fallback fetch
C18_Witness ==
  /\ Returned
  /\ nProbe = 1
  /\ refreshFailed
  /\ credSource = "fallback"
  /\ initialCredentials # NoCred
  /\ tokenCred # initialCredentials
  /\ accessToken = ExtractToken(Fresh(initialCredentials))

\* the initial record was fetched and there is no probe target: the
\* dummyUrl parameter is empty and the record has no non-empty tokenUrl or
\* auth.oauth_token_url
NoProbeTarget ==
  /\ dummyUrlParam = ""
  /\ initialCredentials # NoCred
  /\ ~Truthy(initialCredentials.tokenUrl)
  /\ ~(initialCredentials.auth.present /\
       Truthy(initialCredentials.auth.oauth_token_url))

\* C19: when no probe target exists, no probe request is issued, no
\* credential fetch follows the initial one, the invocation does not end with
\* a credential failure, and the record used from Step 2 on, the one the
\* token is extracted from, is the initial record.
C19_NoTargetUsesInitial ==
  NoProbeTarget =>
    /\ nProbe = 0
    /\ nFetch = 1
    /\ ~refreshFailed
    /\ refreshedCredentials = initialCredentials
    /\ credSource = "initial"
    /\ result \notin {"CredentialRetrievalFailure", "NoCredentials"}
    /\ tokenCred \in {NoCred, initialCredentials}
    /\ pc = "done" => tokenCred = initialCredentials

\* an invocation that returned without a probe: the record's tokenUrl is
\* empty and its auth object holds no URL
C19_Witness ==
  /\ NoProbeTarget
  /\ Returned
  /\ initialCredentials.tokenUrl = ""
  /\ initialCredentials.auth.present
  /\ accessToken = "A"

\* the initial record holds a non-empty token URL
HasTokenUrl(c) ==
  Truthy(c.tokenUrl) \/ (c.auth.present /\ Truthy(c.auth.oauth_token_url))

\* C20: the url of the probe request is the dummyUrl parameter when that is
\* non-empty, whatever URLs the record holds; with the parameter empty it
\* is the initial record's tokenUrl when non-empty, else its
\* auth.oauth_token_url when non-empty; and once the initial record is
\* fetched and the probe's turn has passed, a probe was issued exactly when
\* one of the three exists.
C20_ProbeTargetOrder ==
  /\ nProbe = 1 =>
       /\ initialCredentials # NoCred
       /\ probedUrl # ""
       /\ probedUrl =
            (IF dummyUrlParam # "" THEN dummyUrlParam
             ELSE IF Truthy(initialCredentials.tokenUrl)
               THEN initialCredentials.tokenUrl
               ELSE initialCredentials.auth.oauth_token_url)
  /\ (initialCredentials # NoCred /\ pc \notin {"initialFetch", "probe"}) =>
       (nProbe = 1 <=> (dummyUrlParam # "" \/ HasTokenUrl(initialCredentials)))

\* the probe went to the record's nested auth.oauth_token_url: the
\* parameter is empty and the record's tokenUrl is empty
C20_Witness ==
  /\ nProbe = 1
  /\ dummyUrlParam = ""
  /\ initialCredentials # NoCred
  /\ initialCredentials.tokenUrl = ""
  /\ probedUrl = "V"

\* C21: after an exception in the refresh phase one fallback fetch is
\* attempted, and only when no record has been obtained yet in the
\* invocation: the fallback fetch is never about to be made while the
\* initial record is held, an invocation whose initial fetch succeeded and
\* whose probe threw enters Step 2 having called getCredentials once, and
\* one whose initial fetch threw enters Step 2 having called it twice.
C21_FallbackOnlyWithoutRecord ==
  /\ pc = "fallbackFetch" => initialCredentials = NoCred
  /\ (pc = "step2" /\ refreshFailed /\ initialCredentials # NoCred) => nFetch = 1
  /\ (pc = "step2" /\ refreshFailed /\ initialCredentials = NoCred) => nFetch = 2

\* C22: in a returned batch every enriched record whose input record has an
\* attachment carries one that is a new object (none of the input's
\* objects) with the input attachment's entries, each entry value the very
\* value of the input (an entry that is an object is the same object, not a
\* copy); an enriched record whose input has no attachment carries none, and
\* an error record carries none.
C22_AttachmentShallowCopy ==
  Returned =>
    \A i \in 1..Len(output) :
      IF output[i].err \/ items0[i].binary = 0
        THEN output[i].binary = 0
        ELSE /\ output[i].binary > 3 * Len(items0)
             /\ heap[output[i].binary] = heap[items0[i].binary]

\* a returned batch: the first record's attachment is a new object whose
\* entry is the input's entry object; the second input record had an
\* attachment too, and failed
C22_Witness ==
  /\ Returned
  /\ Len(output) = 2
  /\ ~output[1].err
  /\ output[1].binary > 6
  /\ heap[output[1].binary] = [file |-> Ref(2)]
  /\ output[2].err
  /\ items0[2].binary = 6

\* C23: the token is extracted once, from one record: once extracted,
\* neither the token nor the record it came from changes for the rest of
\* the invocation, whatever the store does; and every enriched record built
\* so far, and every enriched record of the returned batch, holds that
\* token under accessTokenFieldName.
C23_OneTokenPerInvocation ==
  /\ [](tokenCred # NoCred =>
          /\ accessToken = ExtractToken(tokenCred)
          /\ wrote = "none" =>
               \A i \in 1..Len(returnItems) :
                 ~returnItems[i].err =>
                   heap[returnItems[i].json][accessTokenFieldName] = Str(accessToken)
          /\ wrote = "none" =>
               \A i \in 1..Len(output) :
                 ~output[i].err => outSnap[i][accessTokenFieldName] = Str(accessToken))
  /\ [][tokenCred # NoCred =>
          (accessToken' = accessToken /\ tokenCred' = tokenCred)]_vars

\* the store's record was refreshed while the batch was processed: both
\* records of the returned batch hold the token extracted before that, not
\* the one the store holds now
C23_Witness ==
  /\ Returned
  /\ wrote = "none"
  /\ refreshes = 1
  /\ nProbe = 0
  /\ Len(output) = 2
  /\ ~output[1].err
  /\ ~output[2].err
  /\ outSnap[1][accessTokenFieldName] = Str(accessToken)
  /\ outSnap[2][accessTokenFieldName] = Str(accessToken)
  /\ accessToken # ExtractToken(store)

\* C24: a probe request is issued only after the initial fetch of the
\* invocation has succeeded: the request is about to be made, or has been
\* made, only in an invocation that holds its initial record, fetched by the
\* one call made until then; an invocation whose initial fetch threw never
\* issues one, whatever the dummyUrl parameter.
C24_ProbeAfterInitialFetch ==
  /\ pc = "probe" => (initialCredentials # NoCred /\ nFetch = 1 /\ ~refreshFailed)
  /\ nProbe = 1 => initialCredentials # NoCred
  /\ (nFetch >= 1 /\ initialCredentials = NoCred) => (nProbe = 0 /\ probedUrl = "")

\* a dummyUrl is configured, the initial fetch threw, and the invocation
\* returned its batch without a probe request
C24_Witness ==
  /\ Returned
  /\ dummyUrlParam = "P"
  /\ initialCredentials = NoCred
  /\ refreshFailed
  /\ nProbe = 0
  /\ nFetch >= 2

====
